---- MODULE Spec2Model ----
(***************************************************************************)
(* Patch-based local assembly support of firedrake/preconditioners/patch.py *)
(*                                                                         *)
(* The module models, each under a specification of its own,               *)
(*   SpecBC    bcdofs: the dofs fixed by a DirichletBC, in the ghosted and *)
(*             in the owned numbering                                      *)
(*   SpecPS    PlaneSmoother: the patches of directional sweeps            *)
(*   SpecKern  matrix_funptr and residual_funptr: which compiled integrals *)
(*             become kernels                                              *)
(*   SpecCoef  PatchKernelBuilder.set_coefficients: the kernel arguments   *)
(*   SpecSNES  the callbacks Jop and Fop of PatchSNES, one invocation at a *)
(*             time, from their registration on                            *)
(*   SpecSNESConc  the same callbacks with two invocations interleaved     *)
(*   SpecAdapter   PatchPC and PatchSNES: initialize, then apply, update   *)
(*             and step                                                    *)
(*   SpecOption    the lookups of the required options                     *)
(*   SpecArgs  the arguments a kernel is compiled for and the addresses an *)
(*             adapter passes to it                                        *)
(***************************************************************************)
EXTENDS Integers, Sequences, FiniteSets, TLC

VARIABLES
    bc,            \* the DirichletBC handed to bcdofs: function space, _indices, nodes
    ghost_dofs,    \* result of bcdofs(bc, ghost=True)
    global_dofs,   \* result of bcdofs(bc, ghost=False)
    dm,            \* the DMPlex of the patch PC: chart, point centroids, "pyop2_ghost" label
    sweeps,        \* the value of option pc_patch_construct_ps_sweeps, or Absent
    patches,       \* what PlaneSmoother.__call__ returned: (patches, iterationSet)
    sweep_out,     \* per sweep of the call, the bins sort_entities returned
    kernels,       \* what compile_form returns for the form: the kernels' kinfo
    spaces_match,  \* test == trial (matrix), state.function_space() == test (residual)
    matrix_out,    \* result of matrix_funptr(form, state)
    residual_out,  \* result of residual_funptr(form, state)
    form_data,     \* the reduced coefficients of the form and what the integral enables
    builder,       \* the PatchKernelBuilder after set_coefficients
    setup,         \* what PatchSNES.initialize captured for Jop and Fop: coefficients, state slots
    Jop_args,      \* the argument list Jop passes to the Jacobian kernel
    Fop_args,      \* the argument list Fop passes to the residual kernel
    inv,           \* the callback invocations in progress
    calls,         \* the kernel calls made so far, each with the arguments it received
    mat,           \* the patch matrix handed to Jop
    out,           \* the patch vector handed to Fop
    env,           \* what an adapter's initialize finds: contexts, operators, form, options
    adapter,       \* the PatchPC or PatchSNES object: its class and attributes
    init_out,      \* how initialize ended
    appctx,        \* the application-context stack of the mesh DM
    ops,           \* the calls of apply, update and step made so far
    construct_out, \* how a call of user_construction_op or PlaneSmoother.__call__ ended
    kernel_in,     \* one kernel of an adapter: its integral type, coefficients and state
    jit_args,      \* the arguments the kernel was compiled for
    call_args,     \* the buffer addresses the adapter collected for its callback
    passed         \* the addresses the kernel received in an invocation

bcVars == <<bc, ghost_dofs, global_dofs>>
psVars == <<dm, sweeps, patches, sweep_out>>

kernVars == <<kernels, spaces_match, matrix_out, residual_out>>
coefVars == <<form_data, builder>>

snesVars == <<setup, Jop_args, Fop_args, inv, calls, mat, out>>
adVars == <<env, adapter, init_out, appctx, ops, construct_out>>
argVars == <<kernel_in, jit_args, call_args, passed>>

vars == <<bc, ghost_dofs, global_dofs, dm, sweeps, patches, sweep_out,
          kernels, spaces_match, matrix_out, residual_out, form_data, builder,
          setup, Jop_args, Fop_args, inv, calls, mat, out,
          env, adapter, init_out, appctx, ops, construct_out,
          kernel_in, jit_args, call_args, passed>>

\* what the operations of one part leave alone
bcRest == <<psVars, kernVars, coefVars, snesVars, adVars, argVars>>
psRest == <<bcVars, kernVars, coefVars, snesVars, adVars, argVars>>
kernRest == <<bcVars, psVars, coefVars, snesVars, adVars, argVars>>
coefRest == <<bcVars, psVars, kernVars, snesVars, adVars, argVars>>
snesRest == <<bcVars, psVars, kernVars, coefVars, adVars, argVars>>
adRest == <<bcVars, psVars, kernVars, coefVars, snesVars, argVars>>
argRest == <<bcVars, psVars, kernVars, coefVars, snesVars, adVars>>

(***************************************************************************)
(* Helpers on sequences                                                    *)
(***************************************************************************)
Range(s) == {s[k] : k \in DOMAIN s}

RECURSIVE SeqSum(_)
SeqSum(s) == IF s = <<>> THEN 0 ELSE Head(s) + SeqSum(Tail(s))

RECURSIVE Flatten(_)
Flatten(ss) == IF ss = <<>> THEN <<>> ELSE Head(ss) \o Flatten(Tail(ss))

\* the strictly increasing sequences over 0..n-1: the sorted arrays of distinct node numbers
RECURSIVE SortedSeq(_)
SortedSeq(S) ==
    IF S = {} THEN <<>>
    ELSE LET m == CHOOSE x \in S : \A y \in S : x <= y
         IN  <<m>> \o SortedSeq(S \ {m})

\* what a call has produced: nothing yet, a value, or the exception it raised
NoResult == [st |-> "none", val |-> <<>>]
Returned(v) == [st |-> "ok", val |-> v]
Raised(e) == [st |-> e, val |-> <<>>]

\* the parts of the program a specification leaves out stay as they are
Idle == <<>>
BCIdle == bc = Idle /\ ghost_dofs = Idle /\ global_dofs = Idle
PSIdle == dm = Idle /\ sweeps = Idle /\ patches = Idle /\ sweep_out = Idle
KernIdle ==
    kernels = Idle /\ spaces_match = Idle /\ matrix_out = Idle /\ residual_out = Idle
CoefIdle == form_data = Idle /\ builder = Idle
SnesIdle ==
    /\ setup = Idle /\ Jop_args = Idle /\ Fop_args = Idle /\ inv = Idle /\ calls = Idle
    /\ mat = Idle /\ out = Idle
AdIdle ==
    /\ env = Idle /\ adapter = Idle /\ init_out = Idle
    /\ appctx = Idle /\ ops = Idle /\ construct_out = Idle
ArgIdle == kernel_in = Idle /\ jit_args = Idle /\ call_args = Idle /\ passed = Idle

(***************************************************************************)
(* bcdofs                                                                  *)
(***************************************************************************)
MaxNodes == 2      \* nodes (owned and ghost) of a leaf function space
MaxSubs == 2       \* sub-spaces of a mixed function space
GhostCounts == {0, 1}
VectorSizes == {2}

\* A function space: the kind of its ufl_element, value_size, dof_dset.size (owned
\* nodes), dof_dset.total_size (owned and ghost nodes) and, when mixed, its sub-spaces.
LeafSpaces ==
    {[kind |-> "Scalar", vs |-> 1, size |-> t - g, total |-> t, subs |-> <<>>] :
        t \in 1..MaxNodes, g \in GhostCounts}
    \cup
    {[kind |-> "Vector", vs |-> k, size |-> t - g, total |-> t, subs |-> <<>>] :
        <<t, g>> \in (1..MaxNodes) \X GhostCounts, k \in VectorSizes}

MixedSpaces ==
    {[kind |-> "Mixed", vs |-> SeqSum([k \in DOMAIN s |-> s[k].vs]),
      size |-> 0, total |-> 0, subs |-> s] :
        s \in UNION {[1..n -> LeafSpaces] : n \in 2..MaxSubs}}

NoSpace == [kind |-> "None", vs |-> 0, size |-> 0, total |-> 0, subs |-> <<>>]

\* FunctionSpace.dof_count: the dofs of the space on this process, halo included
dof_count(W) == W.total * W.vs

\* Z.sub(idx): a sub-space of a mixed space, a scalar component of a vector space
sub(Z, idx) ==
    IF Z.kind = "Mixed" THEN Z.subs[idx + 1]
    ELSE [kind |-> "Scalar", vs |-> 1, size |-> Z.size, total |-> Z.total, subs |-> <<>>]

\* the offset a mixed node adds for the sub-spaces before idx
MixedOffsetGhostOnly(Z, idx, ghost) ==
    SeqSum([j \in 1..idx |-> dof_count(Z.subs[j])])
MixedOffset(Z, idx, ghost) ==
    IF ghost
    THEN SeqSum([j \in 1..idx |-> dof_count(Z.subs[j])])
    ELSE SeqSum([j \in 1..idx |-> Z.subs[j].size * Z.subs[j].vs])

\* the loop over bc._indices from the root space down
RECURSIVE WalkIndices(_, _, _, _, _, _)
WalkIndices(Z, parent, indices, i, offset, ghost) ==
    IF i > Len(indices)
    THEN [err |-> "", Z |-> Z, parent |-> parent, offset |-> offset]
    ELSE LET idx == indices[i] IN
         IF Z.kind = "Vector"
         THEN IF i # Len(indices) \/ sub(Z, idx).vs # 1
              THEN [err |-> "AssertionError", Z |-> Z, parent |-> parent, offset |-> offset]
              ELSE WalkIndices(sub(Z, idx), Z, indices, i + 1, offset + idx, ghost)
         ELSE IF Z.kind = "Mixed"
         THEN WalkIndices(sub(Z, idx), Z, indices, i + 1,
                          offset + MixedOffset(Z, idx, ghost), ghost)
         ELSE [err |-> "NotImplementedError", Z |-> Z, parent |-> parent, offset |-> offset]

\* block size and the range of components: one component under a vector parent
BlockRangeAllComponents(Z, parent) ==
    IF parent.kind = "Vector"
    THEN [bs |-> parent.vs, start |-> 0, stop |-> parent.vs]
    ELSE [bs |-> Z.vs, start |-> 0, stop |-> Z.vs]
BlockRange(Z, parent) ==
    IF parent.kind = "Vector"
    THEN [bs |-> parent.vs, start |-> 0, stop |-> 1]
    ELSE [bs |-> Z.vs, start |-> 0, stop |-> Z.vs]

\* nodes[nodes < Z.dof_dset.size] when ghost is false
RetainedNodesSwapped(nodes, Z, ghost) ==
    IF ghost THEN SelectSeq(nodes, LAMBDA n : n < Z.size) ELSE nodes
RetainedNodes(nodes, Z, ghost) ==
    IF ~ghost THEN SelectSeq(nodes, LAMBDA n : n < Z.size) ELSE nodes

bcdofs(b, ghost) ==
    LET w == WalkIndices(b.V, NoSpace, b.indices, 1, 0, ghost) IN
    IF w.err # "" THEN Raised(w.err)
    ELSE LET r == BlockRange(w.Z, w.parent)
             nodes == RetainedNodes(b.nodes, w.Z, ghost)
         IN  Returned([k \in 1..(Len(nodes) * (r.stop - r.start)) |->
                          Flatten([j \in 1..(r.stop - r.start) |->
                                      [n \in 1..Len(nodes) |->
                                          nodes[n] * r.bs + (r.start + j - 1)]])[k]
                          + w.offset])

\* the subspace paths a constraint can carry, and the space at the end of each
IndexPaths(V) ==
    IF V.kind = "Mixed"
    THEN {<<i>> : i \in 0..(Len(V.subs) - 1)}
         \cup {<<i, j>> : <<i, j>> \in
                 {p \in (0..(Len(V.subs) - 1)) \X (0..(V.vs - 1)) :
                     p[2] < V.subs[p[1] + 1].vs}}
    ELSE {<<>>} \cup {<<j>> : j \in 0..(V.vs - 1)}

RECURSIVE SpaceAt(_, _)
SpaceAt(V, path) == IF path = <<>> THEN V ELSE SpaceAt(sub(V, Head(path)), Tail(path))

\* the constraints: a function space, a path into it, and the constrained nodes of the
\* space at the end of the path, owned or ghost
BCsOn(V) ==
    UNION {{[V |-> V, indices |-> p, nodes |-> SortedSeq(S)] :
               S \in SUBSET (0..(SpaceAt(V, p).total - 1))} :
           p \in IndexPaths(V)}

BCInit ==
    /\ \E V \in LeafSpaces \cup MixedSpaces : bc \in BCsOn(V)
    /\ ghost_dofs = NoResult
    /\ global_dofs = NoResult

BcdofsGhost ==
    /\ ghost_dofs = NoResult
    /\ ghost_dofs' = bcdofs(bc, TRUE)
    /\ UNCHANGED <<bc, global_dofs>>
    /\ UNCHANGED bcRest

BcdofsGlobal ==
    /\ global_dofs = NoResult
    /\ global_dofs' = bcdofs(bc, FALSE)
    /\ UNCHANGED <<bc, ghost_dofs>>
    /\ UNCHANGED bcRest

NextBC == BcdofsGhost \/ BcdofsGlobal

InitBC == BCInit /\ PSIdle /\ KernIdle /\ CoefIdle /\ SnesIdle /\ AdIdle /\ ArgIdle

SpecBC == InitBC /\ [][NextBC]_vars

(***************************************************************************)
(* Claims on bcdofs                                                        *)
(***************************************************************************)
BothReturned == ghost_dofs.st = "ok" /\ global_dofs.st = "ok"

\* the ghost dofs of the sub-spaces that precede the constrained one in a mixed space
PrecedingGhostDofs(b) ==
    IF b.V.kind = "Mixed"
    THEN SeqSum([j \in 1..b.indices[1] |->
                    (b.V.subs[j].total - b.V.subs[j].size) * b.V.subs[j].vs])
    ELSE 0

\* C1 as stated: for every constraint, also below a mixed space whose preceding
\* sub-spaces own ghost dofs, the dofs of bcdofs(bc, ghost=True) include every dof of
\* bcdofs(bc, ghost=False).
C1_GhostIsSuperset ==
    BothReturned => Range(global_dofs.val) \subseteq Range(ghost_dofs.val)

\* C1 as amended: the dofs of bcdofs(bc, ghost=True) include every dof of
\* bcdofs(bc, ghost=False) moved up by the number of ghost dofs of the sub-spaces that
\* precede the constrained one; so they are a plain superset when there are none.
C1_GhostIsSupersetUpToGhostOffset ==
    BothReturned =>
        {x + PrecedingGhostDofs(bc) : x \in Range(global_dofs.val)}
            \subseteq Range(ghost_dofs.val)

\* a constraint below preceding ghost dofs, on owned and on ghost nodes, both results out
C1_Witness ==
    /\ BothReturned
    /\ PrecedingGhostDofs(bc) > 0
    /\ global_dofs.val # <<>>
    /\ Len(ghost_dofs.val) > Len(global_dofs.val)

\* the constraint restricts one component of a vector space
OnVectorComponent(b) ==
    /\ b.indices # <<>>
    /\ SpaceAt(b.V, SubSeq(b.indices, 1, Len(b.indices) - 1)).kind = "Vector"

\* the offset of the mixed spaces around the constrained space, counted with or
\* without ghost dofs
EnclosingOffset(b, ghost) ==
    IF b.V.kind = "Mixed"
    THEN SeqSum([j \in 1..b.indices[1] |->
                    (IF ghost THEN b.V.subs[j].total ELSE b.V.subs[j].size)
                        * b.V.subs[j].vs])
    ELSE 0

ComponentDofsOf(res, b, ghost) ==
    LET comp == b.indices[Len(b.indices)]
        vec == SpaceAt(b.V, SubSeq(b.indices, 1, Len(b.indices) - 1))
        kept == IF ghost THEN b.nodes ELSE SelectSeq(b.nodes, LAMBDA n : n < vec.size)
    IN  res.st = "ok" =>
            /\ Len(res.val) = Len(kept)
            /\ \A n \in 1..Len(kept) :
                  res.val[n] = kept[n] * vec.vs + comp + EnclosingOffset(b, ghost)

\* C2: for a constraint on component j of a vector space of size k, bcdofs returns one
\* index per retained node, each node*k + j + the offset of the enclosing mixed spaces.
C2_OneIndexPerNode ==
    OnVectorComponent(bc) =>
        /\ ComponentDofsOf(ghost_dofs, bc, TRUE)
        /\ ComponentDofsOf(global_dofs, bc, FALSE)

\* component 1 of a vector sub-space that follows another sub-space, two nodes fixed
C2_Witness ==
    /\ OnVectorComponent(bc)
    /\ bc.V.kind = "Mixed"
    /\ bc.indices = <<1, 1>>
    /\ Len(bc.nodes) = 2
    /\ ghost_dofs.st = "ok" /\ Len(ghost_dofs.val) = 2
    /\ global_dofs.st = "ok"

(***************************************************************************)
(* PlaneSmoother                                                           *)
(***************************************************************************)
NumPoints == 3     \* points of the DM's chart, range(pStart, pEnd)
MaxDiv == 3        \* largest division count of a single sweep
XCoords == {0, 1, 3}
YCoords == {0, 1}
Absent == <<"absent">>   \* the sentinel getString returns for an unset option

Points == 0..(NumPoints - 1)

\* A DM: the centroid of every point and the value of label "pyop2_ghost" on it
\* (-1 when the label does not mark the point). Distinct points have distinct centroids.
DMs ==
    {[centroid |-> c, label |-> l] :
        c \in {f \in [Points -> XCoords \X YCoords] :
                  \A p, q \in Points : p # q => f[p] # f[q]},
        l \in [Points -> {-1, 1}]}

select_entityKeepAll(p, d, exclude) == TRUE
select_entity(p, d, exclude) ==
    IF exclude = "None" THEN TRUE ELSE d.label[p] = -1

\* PlaneSmoother.coords: the mean of the coordinates of the closure of p
coords(d, p) == d.centroid[p]

\* keyfunc: the coordinate along the axis first, then the others in axis order
keyfunc(z, axis) ==
    [i \in 1..Len(z.c) |->
        IF i = 1 THEN z.c[axis + 1] ELSE IF i - 1 <= axis THEN z.c[i - 1] ELSE z.c[i]]

RECURSIVE TupleLess(_, _)
TupleLess(a, b) ==
    IF a = <<>> \/ b = <<>> THEN a = <<>> /\ b # <<>>
    ELSE IF Head(a) # Head(b) THEN Head(a) < Head(b)
    ELSE TupleLess(Tail(a), Tail(b))

\* sorted(entities, key=keyfunc, reverse=(dir == -1)): a stable sort
RECURSIVE Insert(_, _, _, _)
Insert(s, z, axis, dir) ==
    IF s = <<>> THEN <<z>>
    ELSE LET before == IF dir = -1
                       THEN TupleLess(keyfunc(Head(s), axis), keyfunc(z, axis))
                       ELSE TupleLess(keyfunc(z, axis), keyfunc(Head(s), axis))
         IN  IF before THEN <<z>> \o s
             ELSE <<Head(s)>> \o Insert(Tail(s), z, axis, dir)

RECURSIVE sorted(_, _, _)
sorted(es, axis, dir) ==
    IF es = <<>> THEN <<>>
    ELSE Insert(sorted(SubSeq(es, 1, Len(es) - 1), axis, dir), es[Len(es)], axis, dir)

Reverse(s) == [i \in 1..Len(s) |-> s[Len(s) + 1 - i]]

\* numpy.linspace(minx, maxx, ndiv+1), each value as a fraction num/den
linspace(minx, maxx, ndiv) ==
    IF ndiv = 0 THEN <<[num |-> minx, den |-> 1]>>
    ELSE [k \in 1..(ndiv + 1) |->
             [num |-> minx * ndiv + (k - 1) * (maxx - minx), den |-> ndiv]]

\* numpy.searchsorted(a, v), side left: the first index with a[index] >= v
searchsorted(a, v) ==
    CHOOSE i \in 0..Len(a) :
        /\ \A j \in 1..i : a[j] * v.den < v.num
        /\ \A j \in (i + 1)..Len(a) : a[j] * v.den >= v.num

\* entities[i:j], and entities[i:]
Slice(s, i, j) == SubSeq(s, i + 1, j)

\* the bins cut at the indices, and the trailing bin
BinsNoTrailing(entities, indices, ndiv) ==
    [k \in 1..ndiv |-> Slice(entities, indices[k], indices[k + 1])]
Bins(entities, indices, ndiv) ==
    [k \in 1..ndiv |-> Slice(entities, indices[k], indices[k + 1])]
        \o <<Slice(entities, indices[Len(indices)], Len(entities))>>

sort_entities(d, axis, dir, ndiv) ==
    LET chart == [i \in 1..NumPoints |-> i - 1]
        selected == SelectSeq(chart, LAMBDA p : select_entity(p, d, "pyop2_ghost"))
        entities == [i \in 1..Len(selected) |->
                        [p |-> selected[i], c |-> coords(d, selected[i])]]
    IN  IF entities = <<>> THEN Raised("ValueError")
        ELSE LET xs == {entities[i].c[axis + 1] : i \in 1..Len(entities)}
                 minx == CHOOSE x \in xs : \A y \in xs : x <= y
                 maxx == CHOOSE x \in xs : \A y \in xs : x >= y
                 s == sorted(entities, axis, dir)
                 divisions == linspace(minx, maxx, ndiv)
                 ents == [i \in 1..Len(s) |-> s[i].p]
                 cs == [i \in 1..Len(s) |-> s[i].c[axis + 1]]
                 stepped == IF dir = -1 THEN Reverse(cs) ELSE cs
                 indices == [k \in 1..Len(divisions) |->
                                searchsorted(stepped, divisions[k])]
             IN  Returned(Bins(ents, indices, ndiv))

\* the option string, a sequence of characters
DigitChars == <<"0", "1", "2", "3", "4", "5", "6", "7", "8", "9">>
DigitValue(ch) == CHOOSE d \in 0..9 : DigitChars[d + 1] = ch

\* int(chars)
RECURSIVE int(_)
int(chars) ==
    IF Len(chars) = 1 THEN DigitValue(chars[1])
    ELSE 10 * int(SubSeq(chars, 1, Len(chars) - 1)) + DigitValue(chars[Len(chars)])

\* str.split(sep)
RECURSIVE split(_, _)
split(chars, sep) ==
    IF \A i \in 1..Len(chars) : chars[i] # sep THEN <<chars>>
    ELSE LET i == CHOOSE k \in 1..Len(chars) :
                      chars[k] = sep /\ \A j \in 1..(k - 1) : chars[j] # sep
         IN  <<SubSeq(chars, 1, i - 1)>> \o split(SubSeq(chars, i + 1, Len(chars)), sep)

\* axis, direction and division count of one sweep "0+2"
ParseSweep(sweep) ==
    [axis |-> int(<<sweep[1]>>),
     dir |-> IF sweep[2] = "+" THEN 1 ELSE -1,
     ndiv |-> int(SubSeq(sweep, 3, Len(sweep)))]

\* the loop over the sweeps: the patches so far and every sweep's bins, or the error
RECURSIVE SweepLoop(_, _, _, _)
SweepLoop(d, todo, acc, outs) ==
    IF todo = <<>> THEN [st |-> "ok", patches |-> acc, outs |-> outs]
    ELSE LET sw == ParseSweep(Head(todo))
             entities == sort_entities(d, sw.axis, sw.dir, sw.ndiv)
         IN  IF entities.st # "ok"
             THEN [st |-> entities.st, patches |-> <<>>, outs |-> outs]
             ELSE SweepLoop(d, Tail(todo), acc \o entities.val,
                            Append(outs, [sweep |-> sw, out |-> entities.val]))

\* the sweeps a user writes, and the option string of each
RECURSIVE str(_)
str(n) == IF n < 10 THEN <<DigitChars[n + 1]>>
          ELSE str(n \div 10) \o <<DigitChars[(n % 10) + 1]>>

Sweep(axis, dir, ndiv) == [axis |-> axis, dir |-> dir, ndiv |-> ndiv]

SweepLists ==
    {<<Sweep(a, d, n)>> : a \in {0, 1}, d \in {1, -1}, n \in 0..MaxDiv}
    \cup {<<Sweep(0, 1, 2), Sweep(1, -1, 3)>>,
          <<Sweep(0, -1, 1), Sweep(0, 1, 1)>>,
          <<Sweep(1, 1, 0), Sweep(0, -1, 2)>>,
          <<Sweep(0, -1, 3), Sweep(1, 1, 2), Sweep(0, 1, 1)>>,
          <<Sweep(1, 1, 10)>>}

SweepString(sw) == str(sw.axis) \o <<IF sw.dir = 1 THEN "+" ELSE "-">> \o str(sw.ndiv)

RECURSIVE OptionString(_)
OptionString(sws) ==
    IF Len(sws) = 1 THEN SweepString(sws[1])
    ELSE SweepString(Head(sws)) \o <<":">> \o OptionString(Tail(sws))

NoPatches == [st |-> "none", patches |-> <<>>, iterationSet |-> <<>>]

\* what the option store may hold under pc_patch_construct_ps_sweeps
Options == {OptionString(sws) : sws \in SweepLists} \cup {Absent}

PSInit ==
    /\ dm \in DMs
    /\ sweeps = <<>>
    /\ patches = NoPatches
    /\ sweep_out = <<>>

\* PlaneSmoother.__call__(pc), with the option as getString finds it
Call ==
    /\ patches = NoPatches
    /\ \E opt \in Options :
          /\ sweeps' = opt
          /\ IF opt = Absent
             THEN /\ patches' = [st |-> "ValueError", patches |-> <<>>,
                                 iterationSet |-> <<>>]
                  /\ sweep_out' = <<>>
             ELSE LET r == SweepLoop(dm, split(opt, ":"), <<>>, <<>>) IN
                  /\ patches' = [st |-> r.st, patches |-> r.patches,
                                 iterationSet |-> [i \in 1..Len(r.patches) |-> i - 1]]
                  /\ sweep_out' = r.outs
    /\ UNCHANGED dm
    /\ UNCHANGED psRest

NextPS == Call

InitPS == PSInit /\ BCIdle /\ KernIdle /\ CoefIdle /\ SnesIdle /\ AdIdle /\ ArgIdle

SpecPS == InitPS /\ [][NextPS]_vars

(***************************************************************************)
(* Claims on PlaneSmoother                                                 *)
(***************************************************************************)
\* the sweeps the option string was written from
WrittenSweeps == CHOOSE sws \in SweepLists : OptionString(sws) = sweeps

PatchesReturned == patches.st = "ok"

StrideOverPatches ==
    patches.iterationSet = [i \in 1..Len(patches.patches) |-> i - 1]

\* C3 as stated: the patch list holds as many patches as the division counts of the
\* sweeps add up to (5 for "0+2:1-3"), and the iteration set is the stride over them.
C3_PatchCountIsSumOfDivisions ==
    PatchesReturned =>
        /\ Len(patches.patches) =
               SeqSum([i \in 1..Len(WrittenSweeps) |-> WrittenSweeps[i].ndiv])
        /\ StrideOverPatches

\* C3 as amended: every sweep adds its division count plus one patches, the trailing
\* bin included (7 for "0+2:1-3"), and the iteration set is the stride over them.
C3_PatchCountIsSumOfDivisionsPlusOne ==
    PatchesReturned =>
        /\ Len(patches.patches) =
               SeqSum([i \in 1..Len(WrittenSweeps) |-> WrittenSweeps[i].ndiv + 1])
        /\ StrideOverPatches

\* the call for "0+2:1-3" has returned: 3 + 4 patches
C3_Witness ==
    /\ PatchesReturned
    /\ sweeps = <<"0", "+", "2", ":", "1", "-", "3">>
    /\ Len(patches.patches) = 7
    /\ Len(patches.iterationSet) = 7

Occurrences(s, x) == Cardinality({i \in 1..Len(s) : s[i] = x})

\* C4: the bins of every sweep hold each point the label "pyop2_ghost" does not mark
\* exactly once, and no point it marks.
C4_BinsPartitionEligible ==
    \A k \in 1..Len(sweep_out) :
        \A p \in Points :
            Occurrences(Flatten(sweep_out[k].out), p) = IF dm.label[p] = -1 THEN 1 ELSE 0

\* a descending sweep into two divisions over two eligible points and a ghost point
C4_Witness ==
    /\ PatchesReturned
    /\ \E k \in 1..Len(sweep_out) :
          /\ sweep_out[k].sweep.dir = -1
          /\ sweep_out[k].sweep.ndiv = 2
          /\ Len(Flatten(sweep_out[k].out)) = 2
    /\ \E p \in Points : dm.label[p] = 1

\* C5: every patch returned is non-empty, however the points lie along the sweep axis.
C5_EveryPatchNonEmpty ==
    PatchesReturned => \A k \in 1..Len(patches.patches) : patches.patches[k] # <<>>

\* C6: a call with a sweep of division count 0 fails; it returns no patch list.
C6_ZeroDivisionFails ==
    (patches.st # "none" /\ sweeps # Absent
        /\ \E i \in 1..Len(WrittenSweeps) : WrittenSweeps[i].ndiv = 0)
    => patches.st # "ok"

(***************************************************************************)
(* matrix_funptr and residual_funptr                                       *)
(***************************************************************************)
MaxKernels == 2    \* kernels compile_form returns for one form

KInfos ==
    [integral_type : {"cell", "interior_facet", "exterior_facet"},
     subdomain_id : {"otherwise", "1"}]

\* compile_form gives one kernel per integral type and sub-domain
KernelLists ==
    {ks \in UNION {[1..n -> KInfos] : n \in 0..MaxKernels} :
        \A i, j \in 1..Len(ks) : i # j => ks[i] # ks[j]}

CompiledKernel(funptr, kinfo) == [funptr |-> funptr, kinfo |-> kinfo]

\* the checks on one kinfo; "" when it passes
CheckMatrixKernel(kinfo) ==
    IF kinfo.subdomain_id # "otherwise" THEN "NotImplementedError"
    ELSE IF kinfo.integral_type \notin {"cell", "interior_facet"}
    THEN "NotImplementedError" ELSE ""

CheckResidualKernel(kinfo) ==
    IF kinfo.subdomain_id # "otherwise" THEN "NotImplementedError"
    ELSE IF kinfo.integral_type # "cell" THEN "NotImplementedError" ELSE ""

NoKernels == [st |-> "none", cell |-> <<>>, facet |-> <<>>]
KernelError(e) == [st |-> e, cell |-> <<>>, facet |-> <<>>]

\* the loop over the compiled kernels, kernel k next
RECURSIVE KernelLoop(_, _, _, _)
KernelLoop(ks, k, cell_kernels, int_facet_kernels) ==
    IF k > Len(ks)
    THEN [st |-> "ok", cell |-> cell_kernels, facet |-> int_facet_kernels]
    ELSE LET kinfo == ks[k]
             e == CheckMatrixKernel(kinfo)
         IN  IF e # "" THEN KernelError(e)
             ELSE IF kinfo.integral_type = "cell"
             THEN KernelLoop(ks, k + 1,
                             Append(cell_kernels, CompiledKernel(k, kinfo)),
                             int_facet_kernels)
             ELSE IF kinfo.integral_type = "interior_facet"
             THEN KernelLoop(ks, k + 1, cell_kernels,
                             Append(int_facet_kernels, CompiledKernel(k, kinfo)))
             ELSE KernelError("TypeError")   \* get_map is None

matrix_funptr(ks, match) ==
    IF ~match THEN KernelError("NotImplementedError")
    ELSE KernelLoop(ks, 1, <<>>, <<>>)

\* the residual kernel is returned in field cell
residual_funptr(ks, match) ==
    IF ~match THEN KernelError("NotImplementedError")
    ELSE IF Len(ks) # 1 THEN KernelError("ValueError")   \* kernel, = compile_form(...)
    ELSE LET e == CheckResidualKernel(ks[1]) IN
         IF e # "" THEN KernelError(e)
         ELSE [st |-> "ok", cell |-> <<CompiledKernel(1, ks[1])>>, facet |-> <<>>]

KernInit ==
    /\ kernels \in KernelLists
    /\ spaces_match \in BOOLEAN
    /\ matrix_out = NoKernels
    /\ residual_out = NoKernels

MatrixFunptr ==
    /\ matrix_out = NoKernels
    /\ matrix_out' = matrix_funptr(kernels, spaces_match)
    /\ UNCHANGED <<kernels, spaces_match, residual_out>>
    /\ UNCHANGED kernRest

ResidualFunptr ==
    /\ residual_out = NoKernels
    /\ residual_out' = residual_funptr(kernels, spaces_match)
    /\ UNCHANGED <<kernels, spaces_match, matrix_out>>
    /\ UNCHANGED kernRest

NextKern == MatrixFunptr \/ ResidualFunptr

InitKern == KernInit /\ BCIdle /\ PSIdle /\ CoefIdle /\ SnesIdle /\ AdIdle /\ ArgIdle

SpecKern == InitKern /\ [][NextKern]_vars

(***************************************************************************)
(* Claims on matrix_funptr and residual_funptr                             *)
(***************************************************************************)
FullDomain(kinfo) == kinfo.subdomain_id = "otherwise"
MatrixKind(kinfo) == kinfo.integral_type \in {"cell", "interior_facet"}
ResidualKind(kinfo) == kinfo.integral_type = "cell"

MatrixIntegralsFine == \A k \in 1..Len(kernels) : FullDomain(kernels[k]) /\ MatrixKind(kernels[k])
ResidualIntegralsFine ==
    \A k \in 1..Len(kernels) : FullDomain(kernels[k]) /\ ResidualKind(kernels[k])

\* kernels come back only for fine integrals, sorted by kind
ReturnsOnlyFineKernels ==
    /\ matrix_out.st = "ok" =>
          /\ MatrixIntegralsFine
          /\ \A i \in 1..Len(matrix_out.cell) :
                matrix_out.cell[i].kinfo.integral_type = "cell"
          /\ \A i \in 1..Len(matrix_out.facet) :
                matrix_out.facet[i].kinfo.integral_type = "interior_facet"
          /\ Len(matrix_out.cell) + Len(matrix_out.facet) = Len(kernels)
    /\ residual_out.st = "ok" =>
          /\ ResidualIntegralsFine
          /\ Len(residual_out.cell) = 1
          /\ residual_out.cell[1].kinfo = kernels[1]

\* C7: kernels are returned only when every integral is over the full domain
\* and of a supported kind; an integral that is not, wherever in the list, makes either
\* function raise NotImplementedError and return nothing; the lists returned are sorted
\* by kind.
C7_BadIntegralRaisesNotImplemented ==
    /\ ReturnsOnlyFineKernels
    /\ (matrix_out.st # "none" /\ ~MatrixIntegralsFine) =>
          matrix_out = KernelError("NotImplementedError")
    /\ (residual_out.st # "none" /\ ~ResidualIntegralsFine) =>
          residual_out = KernelError("NotImplementedError")

(***************************************************************************)
(* PatchKernelBuilder.set_coefficients                                     *)
(***************************************************************************)
MaxCoeffs == 2     \* reduced coefficients of the form

\* A ufl element: its class and, for the composed ones, its sub-elements.
FiniteElement(deg) == [type |-> "FiniteElement", deg |-> deg, subs |-> <<>>]
VectorElement(n) ==
    [type |-> "VectorElement", deg |-> 1, subs |-> [i \in 1..n |-> FiniteElement(1)]]
MixedElement(n) ==
    [type |-> "MixedElement", deg |-> 0, subs |-> [i \in 1..n |-> FiniteElement(i)]]

Elements ==
    {FiniteElement(1)} \cup {VectorElement(n) : n \in VectorSizes}
        \cup {MixedElement(n) : n \in 2..MaxSubs}

\* One reduced coefficient: its element, whether the builder was built with it as an
\* unsplit coefficient, whether the integral enables it, its place in the original form.
FormDatas ==
    UNION {{fd \in [1..n -> [element : Elements, unsplit : BOOLEAN,
                             enabled : BOOLEAN, position : 0..n]] :
               \A i, j \in 1..n : i < j => fd[i].position < fd[j].position} :
           n \in 1..MaxCoeffs}

\* the kernel arguments one coefficient gives: itself, or one fresh coefficient per
\* sub-element; i names the reduced coefficient they stand for
SplitCoefficientAlways(c, i) ==
    IF c.element.type = "MixedElement"
    THEN [k \in 1..Len(c.element.subs) |->
             [element |-> c.element.subs[k], for |-> i, fresh |-> TRUE]]
    ELSE <<[element |-> c.element, for |-> i, fresh |-> FALSE]>>
SplitCoefficient(c, i) ==
    IF c.element.type = "MixedElement"
    THEN IF c.unsplit
         THEN <<[element |-> c.element, for |-> i, fresh |-> FALSE]>>
         ELSE [k \in 1..Len(c.element.subs) |->
                  [element |-> c.element.subs[k], for |-> i, fresh |-> TRUE]]
    ELSE <<[element |-> c.element, for |-> i, fresh |-> FALSE]>>

\* the loop over integral_data.enabled_coefficients
RECURSIVE CoefficientLoop(_, _, _, _)
CoefficientLoop(fd, i, coefficients, coefficient_numbers) ==
    IF i > Len(fd)
    THEN [coefficients |-> coefficients, coefficient_numbers |-> coefficient_numbers]
    ELSE IF fd[i].enabled
    THEN CoefficientLoop(fd, i + 1, coefficients \o SplitCoefficient(fd[i], i),
                         Append(coefficient_numbers, fd[i].position))
    ELSE CoefficientLoop(fd, i + 1, coefficients, coefficient_numbers)

set_coefficients(fd) ==
    LET r == CoefficientLoop(fd, 1, <<>>, <<>>) IN
    [st |-> "ok",
     coefficient_args |->
         [k \in 1..Len(r.coefficients) |->
             [name |-> k - 1, coefficient |-> r.coefficients[k]]],
     coefficient_numbers |-> r.coefficient_numbers]

NoBuilder == [st |-> "none", coefficient_args |-> <<>>, coefficient_numbers |-> <<>>]

CoefInit ==
    /\ form_data \in FormDatas
    /\ builder = NoBuilder

SetCoefficients ==
    /\ builder = NoBuilder
    /\ builder' = set_coefficients(form_data)
    /\ UNCHANGED form_data
    /\ UNCHANGED coefRest

NextCoef == SetCoefficients

InitCoef == CoefInit /\ BCIdle /\ PSIdle /\ KernIdle /\ SnesIdle /\ AdIdle /\ ArgIdle

SpecCoef == InitCoef /\ [][NextCoef]_vars

(***************************************************************************)
(* Claims on set_coefficients                                              *)
(***************************************************************************)
\* the arguments that stand for reduced coefficient i, in argument order
ArgsFor(i) == SelectSeq(builder.coefficient_args, LAMBDA a : a.coefficient.for = i)

\* C8: an enabled mixed coefficient kept whole gives one argument, on the mixed element;
\* an enabled mixed coefficient not kept whole gives one argument per sub-element, the
\* i-th on the i-th sub-element; an enabled coefficient that is not mixed gives one;
\* a coefficient that is not enabled gives none.
C8_ArgumentsPerCoefficient ==
    builder.st = "ok" =>
        \A i \in 1..Len(form_data) :
            LET c == form_data[i]
                mine == ArgsFor(i)
            IN  IF ~c.enabled THEN mine = <<>>
                ELSE IF c.element.type = "MixedElement" /\ ~c.unsplit
                THEN /\ Len(mine) = Len(c.element.subs)
                     /\ \A k \in 1..Len(mine) :
                           mine[k].coefficient.element = c.element.subs[k]
                ELSE /\ Len(mine) = 1
                     /\ mine[1].coefficient.element = c.element
                     /\ ~mine[1].coefficient.fresh

\* a mixed coefficient kept whole next to a mixed coefficient that is split
C8_Witness ==
    /\ builder.st = "ok"
    /\ Len(form_data) = 2
    /\ \A i \in 1..2 : form_data[i].enabled /\ form_data[i].element.type = "MixedElement"
    /\ form_data[1].unsplit /\ ~form_data[2].unsplit
    /\ Len(builder.coefficient_args) = 1 + Len(form_data[2].element.subs)

(***************************************************************************)
(* PatchSNES: the callbacks Jop and Fop                                    *)
(*                                                                         *)
(* The callbacks are modelled from the point where initialize has built    *)
(* their argument lists; whether initialize gets there is a matter of      *)
(* initialize, not of the callbacks.                                       *)
(***************************************************************************)
MaxCalls == 2      \* callback invocations in one run
None == 0          \* the placeholder in an argument list; no buffer has address 0
NoSlot == -1       \* Jop_state_slot = None: the form does not reference the state

\* A coefficient: whether it is the state, and per piece of split() the address of
\* its data, of its cell node map and of its interior-facet node map (None for a
\* piece without maps).
coordinates == [name |-> "coordinates", state |-> FALSE,
                split |-> <<[dat |-> 11, map |-> 12, facet_map |-> 13]>>]
u == [name |-> "u", state |-> TRUE,
      split |-> <<[dat |-> 51, map |-> 52, facet_map |-> 55],
                  [dat |-> 53, map |-> 54, facet_map |-> 56]>>]
f == [name |-> "f", state |-> FALSE,
      split |-> <<[dat |-> 21, map |-> 22, facet_map |-> 25],
                  [dat |-> 23, map |-> 24, facet_map |-> 26]>>]
r == [name |-> "r", state |-> FALSE,
      split |-> <<[dat |-> 41, map |-> None, facet_map |-> None]>>]

\* the coefficients a kernel's coefficient_map can select, in the order of the form
SubSeqs(s) ==
    {SelectSeq(s, LAMBDA c : c \in S) : S \in SUBSET Range(s)}
CoefficientLists == SubSeqs(<<u, f, r>>) \cup SubSeqs(<<f, r, u>>)

\* the addresses the solver hands to an invocation
VecPtrs == {101, 102}
DofPtrs == {201, 202}

\* the arguments of one coefficient that is not the state
RECURSIVE SplitArgs(_)
SplitArgs(pieces) ==
    IF pieces = <<>> THEN <<>>
    ELSE (IF Head(pieces).map # None
          THEN <<Head(pieces).dat, Head(pieces).map>>
          ELSE <<Head(pieces).dat>>) \o SplitArgs(Tail(pieces))

\* the loop that builds an argument list: two placeholders at the state's slot
RECURSIVE BuildArgs(_, _, _)
BuildArgs(coeffs, args, slot) ==
    IF coeffs = <<>> THEN [args |-> args, slot |-> slot]
    ELSE IF Head(coeffs).state
    THEN BuildArgs(Tail(coeffs), args \o <<None, None>>, Len(args))
    ELSE BuildArgs(Tail(coeffs), args \o SplitArgs(Head(coeffs).split), slot)

\* args[slot] = vec.array_r.ctypes.data; args[slot + 1] = dofsWithAll
SetVecWriteOnce(args, slot, vec) ==
    IF args[slot + 1] = None THEN [args EXCEPT ![slot + 1] = vec] ELSE args
SetVec(args, slot, vec) == [args EXCEPT ![slot + 1] = vec]
SetDofs(args, slot, dofsWithAll) == [args EXCEPT ![slot + 2] = dofsWithAll]

\* a kernel call, with the invocation it belongs to and the arguments it received
KernelCall(fn, vec, dofsWithAll, args) ==
    [fn |-> fn, st |-> "ok", vec |-> vec, dofsWithAll |-> dofsWithAll, args |-> args]
FailedCall(fn, vec, dofsWithAll, e) ==
    [fn |-> fn, st |-> e, vec |-> vec, dofsWithAll |-> dofsWithAll, args |-> <<>>]

\* The output object of a callback: the contributions accumulated in it since it
\* was last cleared, and whether it has been assembled since the last of them.
StaleEntries == <<<<999>>>>      \* what an earlier use has left in it
Output(entries, assembled) == [entries |-> entries, assembled |-> assembled]

\* mat.zeroEntries(), out.set(0)
zeroEntriesKeepsEntries(m) == m
zeroEntries(m) == [m EXCEPT !.entries = <<>>]
\* the kernel adds the contribution of its arguments (access mode INC)
RunKernel(m, args) == Output(Append(m.entries, args), FALSE)
\* mat.assemble(), out.assemble()
assemble(m) == [m EXCEPT !.assembled = TRUE]

\* the state after initialize has built both argument lists; the residual form
\* references the state (line 697)
SnesInit ==
    /\ \E jc \in CoefficientLists :
       \E fc \in {c \in CoefficientLists : \E k \in 1..Len(c) : c[k].state} :
          LET j == BuildArgs(<<coordinates>> \o jc, <<>>, NoSlot)
              ff == BuildArgs(<<coordinates>> \o fc, <<>>, NoSlot)
          IN  /\ setup = [Jop_coeffs |-> <<coordinates>> \o jc,
                          Fop_coeffs |-> <<coordinates>> \o fc,
                          Jop_state_slot |-> j.slot, Fop_state_slot |-> ff.slot,
                          Jop_args |-> j.args, Fop_args |-> ff.args]
              /\ Jop_args = j.args
              /\ Fop_args = ff.args
    /\ calls = <<>>
    /\ \E e \in {<<>>, StaleEntries} : mat = Output(e, TRUE) /\ out = Output(e, TRUE)

\* Jop(pc, point, vec, mat, cellIS, cell_dofmap, cell_dofmapWithAll), as one step
Jop ==
    /\ Len(calls) < MaxCalls
    /\ \E vec \in VecPtrs, dofsWithAll \in DofPtrs \cup {None} :
          IF setup.Jop_state_slot # NoSlot
          THEN IF dofsWithAll = None
               THEN /\ calls' = Append(calls, FailedCall("Jop", vec, dofsWithAll,
                                                         "AssertionError"))
                    /\ mat' = zeroEntries(mat)
                    /\ UNCHANGED Jop_args
               ELSE LET args == SetDofs(SetVec(Jop_args, setup.Jop_state_slot, vec),
                                        setup.Jop_state_slot, dofsWithAll)
                    IN  /\ Jop_args' = args
                        /\ calls' = Append(calls, KernelCall("Jop", vec, dofsWithAll, args))
                        /\ mat' = assemble(RunKernel(zeroEntries(mat), args))
          ELSE /\ calls' = Append(calls, KernelCall("Jop", vec, dofsWithAll, Jop_args))
               /\ mat' = assemble(RunKernel(zeroEntries(mat), Jop_args))
               /\ UNCHANGED Jop_args
    /\ UNCHANGED <<setup, Fop_args, inv, out>>
    /\ UNCHANGED snesRest

\* Fop(pc, point, vec, out, cellIS, cell_dofmap, cell_dofmapWithAll), as one step
Fop ==
    /\ Len(calls) < MaxCalls
    /\ \E vec \in VecPtrs, dofsWithAll \in DofPtrs \cup {None} :
          IF dofsWithAll = None
          THEN /\ calls' = Append(calls, FailedCall("Fop", vec, dofsWithAll,
                                                    "AttributeError"))
               /\ UNCHANGED <<Fop_args, out>>
          ELSE LET args == SetDofs(SetVec(Fop_args, setup.Fop_state_slot, vec),
                                   setup.Fop_state_slot, dofsWithAll)
               IN  /\ Fop_args' = args
                   /\ calls' = Append(calls, KernelCall("Fop", vec, dofsWithAll, args))
                   /\ out' = assemble(RunKernel(zeroEntries(out), args))
    /\ UNCHANGED <<setup, Jop_args, inv, mat>>
    /\ UNCHANGED snesRest

NextSNES == Jop \/ Fop

InitSNES == SnesInit /\ inv = Idle /\ BCIdle /\ PSIdle /\ KernIdle /\ CoefIdle /\ AdIdle /\ ArgIdle

SpecSNES == InitSNES /\ [][NextSNES]_vars

\* the state slot and the argument list captured at setup for a callback
SlotOf(fn) == IF fn = "Jop" THEN setup.Jop_state_slot ELSE setup.Fop_state_slot
SetupArgs(fn) == IF fn = "Jop" THEN setup.Jop_args ELSE setup.Fop_args

\* the kernel calls of callbacks whose form references the state
StateCalls == {k \in 1..Len(calls) : calls[k].st = "ok" /\ SlotOf(calls[k].fn) # NoSlot}

\* the kernel received, in the state slot, what its own invocation was handed
OwnStateArguments(call) ==
    /\ call.args[SlotOf(call.fn) + 1] = call.vec
    /\ call.args[SlotOf(call.fn) + 2] = call.dofsWithAll

\* C9: in any sequence of invocations of Fop and of Jop (when the Jacobian
\* references the state), the kernel is called with the state slot holding the
\* buffer pointer of that invocation's state vector and that invocation's dof map
\* with constraints, neither of them None nor left over from an earlier
\* invocation, and every other argument is the one captured at setup.
C9_StateSlotHoldsThisInvocation ==
    \A k \in StateCalls :
       /\ OwnStateArguments(calls[k])
       /\ calls[k].args[SlotOf(calls[k].fn) + 1] # None
       /\ calls[k].args[SlotOf(calls[k].fn) + 2] # None
       /\ Len(calls[k].args) = Len(SetupArgs(calls[k].fn))
       /\ \A p \in 1..Len(calls[k].args) :
             p \notin {SlotOf(calls[k].fn) + 1, SlotOf(calls[k].fn) + 2}
                => calls[k].args[p] = SetupArgs(calls[k].fn)[p]

\* an invocation follows one of the same callback that was handed another state
\* vector and another dof map, and its kernel receives its own
C9_Witness ==
    \E k \in StateCalls :
       /\ k - 1 \in StateCalls
       /\ calls[k - 1].fn = calls[k].fn
       /\ calls[k - 1].vec # calls[k].vec
       /\ calls[k - 1].dofsWithAll # calls[k].dofsWithAll
       /\ OwnStateArguments(calls[k])

(***************************************************************************)
(* Jop and Fop, statement by statement, with two invocations in progress   *)
(***************************************************************************)
Invocations == {1, 2}

\* each invocation is handed the output object of its own patch
NotRunning ==
    [pc |-> "idle", fn |-> "", vec |-> None, dofsWithAll |-> None,
     target |-> Output(<<>>, TRUE)]
Running(t) == inv[t].pc # "idle"

SnesConcInit ==
    /\ SnesInit
    /\ inv = [t \in Invocations |-> NotRunning]

\* the solver enters a callback: the locals are bound and the target is zeroed
\* (lines 677-686 of Jop, 716-721 of Fop)
Enter(t) ==
    /\ ~Running(t)
    /\ Len(calls) + Cardinality({o \in Invocations : Running(o)}) < MaxCalls
    /\ \E fn \in {"Jop", "Fop"}, vec \in VecPtrs, dofsWithAll \in DofPtrs \cup {None} :
          LET started(pc) == [pc |-> pc, fn |-> fn, vec |-> vec,
                              dofsWithAll |-> dofsWithAll,
                              target |-> zeroEntries(IF fn = "Jop" THEN mat ELSE out)]
          IN  IF fn = "Fop" /\ dofsWithAll = None
              THEN /\ calls' = Append(calls, FailedCall(fn, vec, dofsWithAll,
                                                        "AttributeError"))
                   /\ UNCHANGED inv
              ELSE IF fn = "Jop" /\ setup.Jop_state_slot = NoSlot
              THEN /\ inv' = [inv EXCEPT ![t] = started("call")]
                   /\ UNCHANGED calls
              ELSE IF dofsWithAll = None
              THEN /\ calls' = Append(calls, FailedCall(fn, vec, dofsWithAll,
                                                        "AssertionError"))
                   /\ UNCHANGED inv
              ELSE /\ inv' = [inv EXCEPT ![t] = started("set_vec")]
                   /\ UNCHANGED calls
    /\ UNCHANGED <<setup, Jop_args, Fop_args, mat, out>>
    /\ UNCHANGED snesRest

\* Jop_args[Jop_state_slot] = vec.array_r.ctypes.data, and the same in Fop
StoreVec(t) ==
    /\ inv[t].pc = "set_vec"
    /\ IF inv[t].fn = "Jop"
       THEN /\ Jop_args' = SetVec(Jop_args, setup.Jop_state_slot, inv[t].vec)
            /\ UNCHANGED Fop_args
       ELSE /\ Fop_args' = SetVec(Fop_args, setup.Fop_state_slot, inv[t].vec)
            /\ UNCHANGED Jop_args
    /\ inv' = [inv EXCEPT ![t].pc = "set_dofs"]
    /\ UNCHANGED <<setup, calls, mat, out>>
    /\ UNCHANGED snesRest

\* Jop_args[Jop_state_slot + 1] = dofsWithAll, and the same in Fop
StoreDofs(t) ==
    /\ inv[t].pc = "set_dofs"
    /\ IF inv[t].fn = "Jop"
       THEN /\ Jop_args' = SetDofs(Jop_args, setup.Jop_state_slot, inv[t].dofsWithAll)
            /\ UNCHANGED Fop_args
       ELSE /\ Fop_args' = SetDofs(Fop_args, setup.Fop_state_slot, inv[t].dofsWithAll)
            /\ UNCHANGED Jop_args
    /\ inv' = [inv EXCEPT ![t].pc = "call"]
    /\ UNCHANGED <<setup, calls, mat, out>>
    /\ UNCHANGED snesRest

\* the kernel is called with the list as it is now, then the target is assembled
CallKernel(t) ==
    /\ inv[t].pc = "call"
    /\ calls' = Append(calls, KernelCall(inv[t].fn, inv[t].vec, inv[t].dofsWithAll,
                                         IF inv[t].fn = "Jop" THEN Jop_args ELSE Fop_args))
    /\ inv' = [inv EXCEPT ![t] = NotRunning]
    /\ UNCHANGED <<setup, Jop_args, Fop_args, mat, out>>
    /\ UNCHANGED snesRest

EnterAny == \E t \in Invocations : Enter(t)
StoreVecAny == \E t \in Invocations : StoreVec(t)
StoreDofsAny == \E t \in Invocations : StoreDofs(t)
CallKernelAny == \E t \in Invocations : CallKernel(t)

NextSNESConc == EnterAny \/ StoreVecAny \/ StoreDofsAny \/ CallKernelAny

InitSNESConc == SnesConcInit /\ BCIdle /\ PSIdle /\ KernIdle /\ CoefIdle /\ AdIdle /\ ArgIdle

SpecSNESConc == InitSNESConc /\ [][NextSNESConc]_vars

\* C10: when two invocations of Fop, or of Jop with a state slot, run with their
\* statements interleaved, each kernel call receives in the state slot the state
\* buffer pointer and the dof map of its own invocation.
C10_InterleavedCallsSeeOwnArguments ==
    \A k \in StateCalls : OwnStateArguments(calls[k])

(***************************************************************************)
(* The option store and the patch-construction callbacks                   *)
(*                                                                         *)
(* Option names, prefixes and messages are sequences of pieces of text;    *)
(* concatenating texts is concatenating sequences.                         *)
(***************************************************************************)
NonePrefix == <<"<None>">>     \* getOptionsPrefix() of an object without a prefix
Prefixes == {<<>>, <<"mg_">>, <<"mg_", "patch_">>}

\* "%s" % x
Format(x) == IF x = NonePrefix THEN <<"None">> ELSE x

\* the option names of this file
ps_sweeps == "pc_patch_construct_ps_sweeps"
pc_python_type == "pc_patch_construct_python_type"
snes_python_type == "snes_patch_construct_python_type"

\* the key user_construction_op of a class reads
ConstructKey(cls) == IF cls = "PatchPC" THEN pc_python_type ELSE snes_python_type

\* what the modules of the process export: functions and types that build patches,
\* a function that raises, a sub-module
Modules ==
    [user |-> [good |-> "function", Good |-> "type", fails |-> "raises"],
     pkg |-> [mod |-> "module"]]

\* values a user gives the python_type options
UserCodes ==
    {<<"user", ".", "good">>, <<"user", ".", "Good">>, <<"user", ".", "fails">>,
     <<"user", ".", "missing">>, <<"nomod", ".", "f">>, <<"pkg", ".", "mod", ".", "fun">>,
     <<"nodot">>}

\* str.rsplit(sep, 1)
rsplit1(chars, sep) ==
    IF \A i \in 1..Len(chars) : chars[i] # sep THEN <<chars>>
    ELSE LET i == CHOOSE k \in 1..Len(chars) :
                      chars[k] = sep /\ \A j \in (k + 1)..Len(chars) : chars[j] # sep
         IN  <<SubSeq(chars, 1, i - 1), SubSeq(chars, i + 1, Len(chars))>>

\* PETSc.Options(prefix).getString(name, default=default) on a store of entries
\* [name, value]; an object without a prefix reads the unprefixed names
getString(store, prefix, name, default) ==
    LET full == (IF prefix = NonePrefix THEN <<>> ELSE prefix) \o <<name>>
    IN  IF \E e \in store : e.name = full
        THEN (CHOOSE e \in store : e.name = full).value
        ELSE default

\* how a construction call ended: the exception and its message, the modules
\* imported, the attributes looked up, the functions called, the sweeps binned
ConstructResult(st, msg, imported, looked_up, called, binned) ==
    [st |-> st, msg |-> msg, imported |-> imported, looked_up |-> looked_up,
     called |-> called, binned |-> binned]
NotConstructed == ConstructResult("none", <<>>, <<>>, <<>>, <<>>, 0)

\* the user's function is found and called: lines 582-587 and 771-776
LoadAndCall(usercode) ==
    LET parts == rsplit1(usercode, ".") IN
    IF Len(parts) # 2        \* (modname, funname) = usercode.rsplit('.', 1)
    THEN ConstructResult("ValueError", <<"not enough values to unpack">>,
                         <<>>, <<>>, <<>>, 0)
    ELSE LET modname == parts[1]
             funname == parts[2][1]
             top == modname[1]      \* __import__ returns the top-level package
         IN
    IF top \notin DOMAIN Modules \/ (Len(modname) > 1 /\ modname[3] \notin DOMAIN Modules[top])
    THEN ConstructResult("ImportError", <<>>, <<modname>>, <<>>, <<>>, 0)
    ELSE IF funname \notin DOMAIN Modules[top]
    THEN ConstructResult("AttributeError", <<>>, <<modname>>, <<funname>>, <<>>, 0)
    ELSE LET fun == Modules[top][funname] IN
    IF fun = "module"
    THEN ConstructResult("TypeError", <<>>, <<modname>>, <<funname>>, <<>>, 0)
    ELSE IF fun = "raises"
    THEN ConstructResult("RuntimeError", <<>>, <<modname>>, <<funname>>, <<funname>>, 0)
    ELSE ConstructResult("ok", <<>>, <<modname>>, <<funname>>, <<funname>>, 0)

\* user_construction_op(pc, *args, **kwargs) of PatchPC and of PatchSNES
user_construction_opMessageWithoutPrefix(cls, prefix, store) ==
    LET usercode == getString(store, prefix, ConstructKey(cls), Absent) IN
    IF usercode = Absent
    THEN ConstructResult("ValueError", <<"Must set ">> \o <<ConstructKey(cls)>>,
                         <<>>, <<>>, <<>>, 0)
    ELSE LoadAndCall(usercode)
user_construction_op(cls, prefix, store) ==
    LET usercode == getString(store, prefix, ConstructKey(cls), Absent) IN
    IF usercode = Absent
    THEN ConstructResult("ValueError",
                         <<"Must set ">> \o Format(prefix) \o <<ConstructKey(cls)>>,
                         <<>>, <<>>, <<>>, 0)
    ELSE LoadAndCall(usercode)

\* PlaneSmoother.__call__(pc) on the DM d, reading its option from the store
PlaneSmootherCall(d, prefix, store) ==
    LET opt == getString(store, prefix, ps_sweeps, Absent) IN
    IF opt = Absent
    THEN ConstructResult("ValueError", <<"Must set ">> \o Format(prefix) \o <<ps_sweeps>>,
                         <<>>, <<>>, <<>>, 0)
    ELSE LET res == SweepLoop(d, split(opt, ":"), <<>>, <<>>)
         IN  ConstructResult(res.st, <<>>, <<>>, <<>>, <<>>, Len(res.outs))

\* the stores: nothing set, or one option set under some prefix
SweepValues == {OptionString(<<Sweep(0, 1, 2)>>), OptionString(<<Sweep(0, 1, 2), Sweep(1, -1, 3)>>)}
StoreEntries ==
    {[name |-> pre \o <<ps_sweeps>>, value |-> v] : pre \in Prefixes, v \in SweepValues}
    \cup {[name |-> pre \o <<k>>, value |-> v] :
             pre \in Prefixes, k \in {pc_python_type, snes_python_type}, v \in UserCodes}
Stores == {{}} \cup {{e} : e \in StoreEntries}

\* a DM of three points, none of them a ghost
SampleDM == CHOOSE d \in DMs : \A p \in Points : d.label[p] = -1

OptionInit == construct_out = NotConstructed /\ env = <<>>

\* the solver calls the construction callback of an adapter
UserConstructionOp ==
    /\ construct_out = NotConstructed
    /\ \E cls \in {"PatchPC", "PatchSNES"}, prefix \in Prefixes \cup {NonePrefix},
          store \in Stores :
          /\ env' = [op |-> cls, prefix |-> prefix, store |-> store]
          /\ construct_out' = user_construction_op(cls, prefix, store)
    /\ UNCHANGED <<adapter, init_out, appctx, ops>>
    /\ UNCHANGED adRest

\* the callback calls a PlaneSmoother
PlaneSmootherOp ==
    /\ construct_out = NotConstructed
    /\ \E prefix \in Prefixes \cup {NonePrefix}, store \in Stores :
          /\ env' = [op |-> "PlaneSmoother", prefix |-> prefix, store |-> store]
          /\ construct_out' = PlaneSmootherCall(SampleDM, prefix, store)
    /\ UNCHANGED <<adapter, init_out, appctx, ops>>
    /\ UNCHANGED adRest

NextOption == UserConstructionOp \/ PlaneSmootherOp

InitOption ==
    /\ OptionInit /\ adapter = Idle /\ init_out = Idle /\ appctx = Idle /\ ops = Idle
    /\ BCIdle /\ PSIdle /\ KernIdle /\ CoefIdle /\ SnesIdle /\ ArgIdle

SpecOption == InitOption /\ [][NextOption]_vars

(***************************************************************************)
(* PatchPC and PatchSNES: initialize                                       *)
(***************************************************************************)
MaxOps == 2        \* calls of apply, update and step after initialize

\* the operator P: its type and, for a python matrix, its context and whether
\* row_bcs == col_bcs
Ps ==
    {[type |-> "aij", ictx |-> "None", bcs_match |-> TRUE],
     [type |-> "python", ictx |-> "None", bcs_match |-> TRUE],
     [type |-> "python", ictx |-> "other", bcs_match |-> TRUE],
     [type |-> "python", ictx |-> "ImplicitMatrixContext", bcs_match |-> TRUE],
     [type |-> "python", ictx |-> "ImplicitMatrixContext", bcs_match |-> FALSE]}
ValidPs == {P \in Ps : P.type = "aij" \/ (P.ictx = "ImplicitMatrixContext" /\ P.bcs_match)}

\* get_appctx(dm): nothing, something that is not a _SNESContext, a _SNESContext
Ctxs == {"None", "other", "_SNESContext"}

\* the boundary conditions of the problem: none, one on a scalar space, one that
\* indexes into a scalar space (bcdofs raises on it)
ScalarSpace == [kind |-> "Scalar", vs |-> 1, size |-> 1, total |-> 1, subs |-> <<>>]
BCLists ==
    {<<>>, <<[V |-> ScalarSpace, indices |-> <<>>, nodes |-> <<0>>]>>,
     <<[V |-> ScalarSpace, indices |-> <<0>>, nodes |-> <<0>>]>>}
ValidBCLists == {bcs \in BCLists : \A k \in 1..Len(bcs) : bcdofs(bcs[k], TRUE).st = "ok"}

\* numpy.unique(numpy.concatenate([bcdofs(bc, ghost=ghost) for bc in bcs]))
RECURSIVE bc_nodes(_, _)
bc_nodes(bcs, ghost) ==
    IF bcs = <<>> THEN Returned({})
    ELSE LET head == bcdofs(Head(bcs), ghost)
             rest == bc_nodes(Tail(bcs), ghost)
         IN  IF head.st # "ok" THEN head
             ELSE IF rest.st # "ok" THEN rest
             ELSE Returned(Range(head.val) \cup rest.val)

\* the kernels of a Jacobian the adapters are written for: one cell integral, at
\* most one interior-facet integral, over the whole domain
CellKInfo == [integral_type |-> "cell", subdomain_id |-> "otherwise"]
FacetKInfo == [integral_type |-> "interior_facet", subdomain_id |-> "otherwise"]
ValidKernelLists == {<<CellKInfo>>, <<CellKInfo, FacetKInfo>>, <<FacetKInfo, CellKInfo>>}

\* the option store of a run: the construction option set under the prefix of the
\* patch solver, set under the prefix of the outer solver, or not set
AdapterStores(cls) ==
    {{}} \cup {{[name |-> pre \o <<ConstructKey(cls)>>, value |-> v]} :
                  pre \in {<<"mg_">>, <<"mg_", "patch_">>},
                  v \in {<<"user", ".", "good">>, <<"user", ".", "Good">>,
                         <<"user", ".", "fails">>}}
ValidStores(cls) ==
    {st \in AdapterStores(cls) :
        user_construction_op(cls, <<"mg_", "patch_">>, st).st = "ok"}

\* a configuration every check of initialize accepts
ValidEnvs(cls) ==
    [cls : {cls}, ctx : {"_SNESContext"}, P : ValidPs, extruded : {FALSE},
     prefix : {<<"mg_">>}, bcs : ValidBCLists, kernels : ValidKernelLists,
     match : {TRUE}, Fkernels : {<<CellKInfo>>}, Fmatch : {TRUE},
     state_in_F : {TRUE}, residual : {TRUE}, store : ValidStores(cls)]

\* the configurations of a run: a valid one, or a valid one with one part changed
Envs(cls) ==
    UNION {{[v EXCEPT !.ctx = x] : x \in Ctxs}
           \cup {[v EXCEPT !.P = x] : x \in Ps}
           \cup {[v EXCEPT !.extruded = x] : x \in BOOLEAN}
           \cup {[v EXCEPT !.prefix = x] : x \in {<<"mg_">>, NonePrefix}}
           \cup {[v EXCEPT !.bcs = x] : x \in BCLists}
           \cup {[v EXCEPT !.kernels = x] : x \in KernelLists}
           \cup {[v EXCEPT !.match = x] : x \in BOOLEAN}
           \cup {[v EXCEPT !.store = x] : x \in AdapterStores(cls)}
           \cup (IF cls = "PatchSNES"
                 THEN {[v EXCEPT !.Fkernels = x] : x \in KernelLists}
                      \cup {[v EXCEPT !.Fmatch = x] : x \in BOOLEAN}
                      \cup {[v EXCEPT !.state_in_F = x] : x \in BOOLEAN}
                      \cup {[v EXCEPT !.residual = x] : x \in BOOLEAN}
                 ELSE {}) :
           v \in ValidEnvs(cls)}

\* the attributes of an adapter: the patch solver with the calls that configured
\* it, the mesh DM and the context kept for step, the empty right-hand side
NoPatch == [set |-> FALSE, prefix |-> <<>>, conf |-> <<>>]
Patch(prefix, conf) == [set |-> TRUE, prefix |-> prefix, conf |-> conf]
NewAdapter(cls) ==
    [cls |-> cls, patch |-> NoPatch, plex |-> "unset", ctx |-> "unset", dummy |-> FALSE]

\* how initialize ends: the exception or "ok", and the attributes it has set
InitResult(st, self) == [st |-> st, self |-> self]

\* patch.setFromOptions(); patch.setUp(); self.patch = patch, where setUp runs
\* the construction callback c
FinishSetUpAssignFirst(self, prefix, conf, c) ==
    IF c.st # "ok"
    THEN InitResult(c.st, [self EXCEPT !.patch = Patch(prefix, conf \o <<"setFromOptions">>)])
    ELSE InitResult("ok", [self EXCEPT
                              !.patch = Patch(prefix, conf \o <<"setFromOptions", "setUp">>)])
FinishSetUp(self, prefix, conf, c) ==
    IF c.st # "ok" THEN InitResult(c.st, self)
    ELSE InitResult("ok", [self EXCEPT
                              !.patch = Patch(prefix, conf \o <<"setFromOptions", "setUp">>)])

\* the checks both adapters start with: the context of the DM and the operator
\* (lines 456-471, 604-623); "" when they pass
CheckContexts(e) ==
    IF e.ctx = "None" THEN "ValueError"
    ELSE IF e.ctx # "_SNESContext" THEN "ValueError"
    ELSE IF e.P.type = "python" /\ e.P.ictx = "None" THEN "ValueError"
    ELSE IF e.P.type = "python" /\ e.P.ictx # "ImplicitMatrixContext" THEN "ValueError"
    ELSE IF e.P.type = "python" /\ ~e.P.bcs_match THEN "NotImplementedError"
    ELSE ""

\* PatchPC.initialize(pc)
PCInitialize(self, e) ==
    IF CheckContexts(e) # "" THEN InitResult(CheckContexts(e), self)
    ELSE IF e.extruded THEN InitResult("NotImplementedError", self)
    ELSE IF e.prefix = NonePrefix         \* pc.getOptionsPrefix() + "patch_"
    THEN InitResult("TypeError", self)
    ELSE LET compiled == matrix_funptr(e.kernels, e.match)
             ghost_bc_nodes == bc_nodes(e.bcs, TRUE)
             global_bc_nodes == bc_nodes(e.bcs, FALSE)
             prefix == e.prefix \o <<"patch_">>
         IN
    IF compiled.st # "ok" THEN InitResult(compiled.st, self)
    ELSE IF ghost_bc_nodes.st # "ok" THEN InitResult(ghost_bc_nodes.st, self)
    ELSE IF global_bc_nodes.st # "ok" THEN InitResult(global_bc_nodes.st, self)
    ELSE IF Len(compiled.cell) # 1         \* cell_kernel, = cell_kernels
    THEN InitResult("ValueError", self)
    ELSE IF Len(compiled.facet) > 1        \* int_facet_kernel, = int_facet_kernels
    THEN InitResult("ValueError", self)
    ELSE FinishSetUp(self, prefix,
                     <<"setOptionsPrefix", "setOperators", "setType", "setDM",
                       "setPatchCellNumbering", "setPatchDiscretisationInfo",
                       "setPatchComputeOperator">>
                     \o (IF Len(compiled.facet) > 0
                         THEN <<"setPatchComputeOperatorInteriorFacets">> ELSE <<>>)
                     \o <<"setPatchConstructType", "setAttr", "incrementTabLevel">>,
                     user_construction_op("PatchPC", prefix, e.store))

\* a value of the program with the attributes of its type
List(items) == [type |-> "list", items |-> items]
HasAttr(x, name) == x.type = "KernelInfo" /\ name = "coefficient_map"

\* PatchSNES.initialize(snes), from line 693 on
SNESInitializeResidual(self, e, prefix) ==
    LET residual == residual_funptr(e.Fkernels, e.Fmatch) IN
    IF residual.st # "ok" THEN InitResult(residual.st, self)
    ELSE IF ~e.state_in_F THEN InitResult("AssertionError", self)
    ELSE IF ~e.residual THEN InitResult("AssertionError", self)
    ELSE LET done == FinishSetUp(self, prefix,
                        <<"setOptionsPrefix", "setType", "setDM", "setPatchCellNumbering",
                          "setPatchDiscretisationInfo", "setPatchComputeOperator",
                          "setPatchComputeFunction", "setPatchConstructType",
                          "setFunction", "setAttr", "incrementTabLevel",
                          "setTolerances", "setConvergenceTest">>,
                        user_construction_op("PatchSNES", prefix, e.store))
         IN  IF done.st # "ok" THEN done
             ELSE InitResult("ok", [done.self EXCEPT !.dummy = TRUE])

\* PatchSNES.initialize(snes)
SNESInitialize(self, e) ==
    IF CheckContexts(e) # "" THEN InitResult(CheckContexts(e), self)
    ELSE LET kept == [self EXCEPT !.plex = "plex", !.ctx = e.ctx] IN
    IF e.extruded THEN InitResult("NotImplementedError", kept)
    ELSE IF e.prefix = NonePrefix         \* snes.getOptionsPrefix() + "patch_"
    THEN InitResult("TypeError", kept)
    ELSE LET ghost_bc_nodes == bc_nodes(e.bcs, TRUE)
             global_bc_nodes == bc_nodes(e.bcs, FALSE)
             compiled == matrix_funptr(e.kernels, e.match)
             \* Jfunptr, Jkinfo = matrix_funptr(J, state)
             Jfunptr == List(compiled.cell)
             Jkinfo == List(compiled.facet)
         IN
    IF ghost_bc_nodes.st # "ok" THEN InitResult(ghost_bc_nodes.st, kept)
    ELSE IF global_bc_nodes.st # "ok" THEN InitResult(global_bc_nodes.st, kept)
    ELSE IF compiled.st # "ok" THEN InitResult(compiled.st, kept)
    ELSE IF ~HasAttr(Jkinfo, "coefficient_map")   \* for n in Jkinfo.coefficient_map
    THEN InitResult("AttributeError", kept)
    ELSE SNESInitializeResidual(kept, e, e.prefix \o <<"patch_">>)

initialize(self, e) ==
    IF self.cls = "PatchPC" THEN PCInitialize(self, e) ELSE SNESInitialize(self, e)

\* the adapter as constructed; the application-context stack of the mesh DM holds
\* the context of the outer solve
AdapterInit ==
    /\ adapter \in {NewAdapter(cls) : cls \in {"PatchPC", "PatchSNES"}}
    /\ env = <<>>
    /\ init_out = "none"
    /\ appctx = <<"outer">>
    /\ ops = <<>>

\* the solver sets the adapter up: initialize(pc) in the configuration of the run
Initialize ==
    /\ init_out = "none"
    /\ \E e \in Envs(adapter.cls) :
          /\ env' = e
          /\ init_out' = initialize(adapter, e).st
          /\ adapter' = initialize(adapter, e).self
    /\ UNCHANGED <<appctx, ops, construct_out>>
    /\ UNCHANGED adRest

\* dmhooks: the contexts of a DM are a stack
push_appctx(stack, ctx) == Append(stack, ctx)
pop_appctx(stack) == SubSeq(stack, 1, Len(stack) - 1)

\* a call of apply, update or step: how it ended and the patch solver it ran on
OpResult(op, st, patch) == [op |-> op, st |-> st, patch |-> patch]

\* PatchPC.apply(pc, x, y): self.patch.apply(x, y)
Apply ==
    /\ adapter.cls = "PatchPC"
    /\ Len(ops) < MaxOps
    /\ ops' = Append(ops, IF adapter.patch.set
                          THEN OpResult("apply", "ok", adapter.patch)
                          ELSE OpResult("apply", "AttributeError", NoPatch))
    /\ UNCHANGED <<env, adapter, init_out, appctx, construct_out>>
    /\ UNCHANGED adRest

\* update(pc) of both adapters: self.patch.setUp()
Update ==
    /\ Len(ops) < MaxOps
    /\ ops' = Append(ops, IF adapter.patch.set
                          THEN OpResult("update", "ok", adapter.patch)
                          ELSE OpResult("update", "AttributeError", NoPatch))
    /\ UNCHANGED <<env, adapter, init_out, appctx, construct_out>>
    /\ UNCHANGED adRest

\* PatchSNES.step(snes, x, f, y); the solve of the patch solver may fail
Step ==
    /\ adapter.cls = "PatchSNES"
    /\ Len(ops) < MaxOps
    /\ IF adapter.plex = "unset"           \* self.plex has never been assigned
       THEN /\ ops' = Append(ops, OpResult("step", "AttributeError", NoPatch))
            /\ UNCHANGED appctx
       ELSE LET pushed == push_appctx(appctx, adapter.ctx) IN
            IF ~adapter.patch.set          \* self.patch has never been assigned
            THEN /\ ops' = Append(ops, OpResult("step", "AttributeError", NoPatch))
                 /\ appctx' = pushed
            ELSE \E solved \in BOOLEAN :
                    IF solved
                    THEN /\ ops' = Append(ops, OpResult("step", "ok", adapter.patch))
                         /\ appctx' = pop_appctx(pushed)
                    ELSE /\ ops' = Append(ops, OpResult("step", "Error", adapter.patch))
                         /\ appctx' = pushed
    /\ UNCHANGED <<env, adapter, init_out, construct_out>>
    /\ UNCHANGED adRest

NextAdapter == Initialize \/ Apply \/ Update \/ Step

InitAdapter ==
    /\ AdapterInit /\ construct_out = Idle
    /\ BCIdle /\ PSIdle /\ KernIdle /\ CoefIdle /\ SnesIdle /\ ArgIdle

SpecAdapter == InitAdapter /\ [][NextAdapter]_vars

(***************************************************************************)
(* Claims on the adapters                                                  *)
(***************************************************************************)
InitializeFailed == init_out \notin {"none", "ok"}
FullyConfigured(patch) ==
    /\ patch.set
    /\ patch.conf # <<>>
    /\ patch.conf[Len(patch.conf)] = "setUp"
    /\ "setPatchComputeOperator" \in Range(patch.conf)
    /\ "setPatchConstructType" \in Range(patch.conf)

\* C11: when initialize of PatchPC or of PatchSNES fails at any step, the adapter
\* holds no patch solver; self.patch is set only once every check, the kernel
\* compilation and patch.setUp() have succeeded, and apply, update and step never
\* run on a patch solver that is not fully configured.
C11_FailedInitializeLeavesNoPatch ==
    /\ InitializeFailed => ~adapter.patch.set
    /\ adapter.patch.set =>
          /\ init_out = "ok"
          /\ FullyConfigured(adapter.patch)
          /\ CheckContexts(env) = "" /\ ~env.extruded
          /\ matrix_funptr(env.kernels, env.match).st = "ok"
          /\ user_construction_op(adapter.cls, adapter.patch.prefix, env.store).st = "ok"
    /\ \A k \in 1..Len(ops) :
          IF ops[k].st = "AttributeError" THEN ~ops[k].patch.set
          ELSE FullyConfigured(ops[k].patch)

\* setUp has failed in the construction callback, the last step of initialize, and
\* apply was then called: it found no patch solver
C11_Witness ==
    /\ InitializeFailed
    /\ adapter.cls = "PatchPC"
    /\ user_construction_op("PatchPC", env.prefix \o <<"patch_">>, env.store).st
          \in {"ValueError", "RuntimeError"}
    /\ CheckContexts(env) = ""
    /\ matrix_funptr(env.kernels, env.match).st = "ok"
    /\ init_out = user_construction_op("PatchPC", env.prefix \o <<"patch_">>, env.store).st
    /\ \E k \in 1..Len(ops) : ops[k].op = "apply" /\ ops[k].st = "AttributeError"

(***************************************************************************)
(* Claims on the required options                                          *)
(***************************************************************************)
ExpectedKey == IF env.op = "PlaneSmoother" THEN ps_sweeps ELSE ConstructKey(env.op)
PrefixText == IF env.prefix = NonePrefix THEN <<>> ELSE env.prefix
OptionAbsent == \A e \in env.store : e.name # PrefixText \o <<ExpectedKey>>

\* text part occurs in text msg
Contains(msg, part) ==
    \E i \in 0..(Len(msg) - Len(part)) : SubSeq(msg, i + 1, i + Len(part)) = part

\* C12: when the option an operation requires is not in the option store under its
\* prefix (pc_patch_construct_ps_sweeps for PlaneSmoother, pc_patch_construct_python_type
\* for PatchPC, snes_patch_construct_python_type for PatchSNES), the operation raises
\* ValueError with a message that contains the prefix followed by the name of the key,
\* before any sweep is binned and before any user function is imported, looked up or
\* called.
C12_MissingOptionRaisesValueError ==
    (construct_out.st # "none" /\ OptionAbsent) =>
        /\ construct_out.st = "ValueError"
        /\ Contains(construct_out.msg, PrefixText \o <<ExpectedKey>>)
        /\ construct_out.imported = <<>>
        /\ construct_out.looked_up = <<>>
        /\ construct_out.called = <<>>
        /\ construct_out.binned = 0

\* PatchSNES's callback was called with a prefix under which the option is not set,
\* while it is set under another prefix
C12_Witness ==
    /\ construct_out.st = "ValueError"
    /\ env.op = "PatchSNES"
    /\ env.prefix = <<"mg_", "patch_">>
    /\ OptionAbsent
    /\ \E e \in env.store : e.name = <<"mg_", snes_python_type>>

(***************************************************************************)
(* Claims on the thresholds of a sweep                                     *)
(***************************************************************************)
\* the thresholds of a written sweep, and the coordinate of a point along its axis
Thresholds(k) ==
    LET sw == sweep_out[k].sweep
        xs == {dm.centroid[p][sw.axis + 1] : p \in {q \in Points : dm.label[q] = -1}}
    IN  linspace(CHOOSE x \in xs : \A y \in xs : x <= y,
                 CHOOSE x \in xs : \A y \in xs : x >= y, sw.ndiv)
AxisCoord(k, p) == dm.centroid[p][sweep_out[k].sweep.axis + 1]
AtLeast(x, t) == x * t.den >= t.num
AtMost(x, t) == x * t.den <= t.num

\* C13: for every sweep with at least one division, in either direction, the
\* entities of one bin have their axis coordinates between two consecutive
\* thresholds (ends included), and the trailing bin holds only entities at or
\* past the last threshold in the order of the sweep.
C13_BinsWithinThresholdIntervals ==
    PatchesReturned =>
    \A k \in 1..Len(sweep_out) :
       LET sw == sweep_out[k].sweep
           bins == sweep_out[k].out
           t == Thresholds(k)
       IN  sw.ndiv >= 1 =>
           /\ \A j \in 1..sw.ndiv :
                 \E i \in 1..sw.ndiv :
                    \A n \in 1..Len(bins[j]) :
                       /\ AtLeast(AxisCoord(k, bins[j][n]), t[i])
                       /\ AtMost(AxisCoord(k, bins[j][n]), t[i + 1])
           /\ \A n \in 1..Len(bins[sw.ndiv + 1]) :
                 IF sw.dir = 1
                 THEN AtLeast(AxisCoord(k, bins[sw.ndiv + 1][n]), t[sw.ndiv + 1])
                 ELSE AtMost(AxisCoord(k, bins[sw.ndiv + 1][n]), t[1])

(***************************************************************************)
(* Claims on the kernels the adapters register                             *)
(***************************************************************************)
\* C14: both adapters take the result of matrix_funptr as the pair of lists it is,
\* the Jacobian kernel being a cell kernel of the first list and coefficient_map
\* being read from that kernel's kinfo, so that in a configuration every check
\* accepts initialize of PatchSNES, like that of PatchPC, registers its callbacks
\* and completes.
C14_ValidConfigurationCompletesSetup ==
    (init_out # "none" /\ env \in ValidEnvs(adapter.cls)) =>
        /\ init_out = "ok"
        /\ FullyConfigured(adapter.patch)

\* C15: every step pairs its push_appctx with one pop_appctx on every way out, also
\* when the solve of the patch solver raises: after any sequence of steps, failed
\* or not, the application-context stack of the mesh DM is as deep as before.
C15_StepLeavesContextStackAsItWas ==
    (adapter.cls = "PatchSNES" /\ \E k \in 1..Len(ops) : ops[k].op = "step") =>
        appctx = <<"outer">>

(***************************************************************************)
(* The arguments of one kernel: compiled for, collected, passed            *)
(*                                                                         *)
(* A dat and a map are named by the address of their data, which is what   *)
(* the adapters pass to the compiled code.                                 *)
(***************************************************************************)
matdat == 81              \* the output argument at position 0
statedat == 61            \* DenseDat(dofset), the placeholder of the state
local_facet_dat == 71     \* interior_facets.local_facet_dat
entity_node_map(integral_type) == IF integral_type = "cell" THEN 62 ELSE 63

\* the kernels an adapter compiles and calls
AdapterKernels == {"cell_kernel", "int_facet_kernel", "Ffunptr"}
integral_type(kernel) == IF kernel = "int_facet_kernel" THEN "interior_facet" ELSE "cell"

\* the coefficients a coefficient_map selects, in any order of the form
ArgCoefficientLists ==
    {cs \in UNION {[1..n -> {u, f, r}] : n \in 0..3} :
        \A i, j \in DOMAIN cs : i # j => cs[i] # cs[j]}

\* PatchPC compiles with state None, PatchSNES with its state u
KernelInputs ==
    {[kernel |-> k, coeffs |-> cs, state |-> IF k = "Ffunptr" THEN "u" ELSE "None"] :
        k \in AdapterKernels, cs \in ArgCoefficientLists}

Arg(dat, map, position) == [dat |-> dat, map |-> map, position |-> position]

\* operator.methodcaller("cell_node_map"), ("interior_facet_node_map")
get_map(c_, type) == IF type = "cell" THEN c_.map ELSE c_.facet_map

\* for (i, c_) in enumerate(c.split()): ... arg.position = len(args)
RECURSIVE SplitLoop(_, _, _)
SplitLoop(pieces, args, type) ==
    IF pieces = <<>> THEN args
    ELSE SplitLoop(Tail(pieces),
                   Append(args, Arg(Head(pieces).dat, get_map(Head(pieces), type),
                                    Len(args))),
                   type)

\* for n in kinfo.coefficient_map: the state gets statearg, the others are split
RECURSIVE CoefficientArgs(_, _, _, _)
CoefficientArgs(coeffs, state, args, type) ==
    IF coeffs = <<>> THEN args
    ELSE IF Head(coeffs).name = state
    THEN CoefficientArgs(Tail(coeffs), state,
                         Append(args, Arg(statedat, entity_node_map(type), Len(args))),
                         type)
    ELSE CoefficientArgs(Tail(coeffs), state,
                         SplitLoop(Head(coeffs).split, args, type), type)

\* the arguments matrix_funptr hands to JITModule for one kernel
matrix_funptrArgs(coeffs, state, type) ==
    LET first == <<Arg(matdat, entity_node_map(type), 0),
                   Arg(coordinates.split[1].dat, get_map(coordinates.split[1], type), 1)>>
        args == CoefficientArgs(coeffs, state, first, type)
    IN  IF type = "interior_facet"
        THEN Append(args, Arg(local_facet_dat, None, Len(args)))
        ELSE args

\* the arguments residual_funptr hands to JITModule
residual_funptrArgs(coeffs, state) ==
    LET first == <<Arg(matdat, entity_node_map("cell"), 0),
                   Arg(coordinates.split[1].dat, coordinates.split[1].map, 1)>>
    IN  CoefficientArgs(coeffs, state, first, "cell")

\* op_args of PatchPC.initialize: per piece its data, and its cell node map if any
RECURSIVE op_args(_)
op_args(op_coeffs) ==
    IF op_coeffs = <<>> THEN <<>>
    ELSE SplitArgs(Head(op_coeffs).split) \o op_args(Tail(op_coeffs))

\* facet_op_args: per piece its data, and its interior-facet node map if any
RECURSIVE FacetSplitArgs(_)
FacetSplitArgs(pieces) ==
    IF pieces = <<>> THEN <<>>
    ELSE (IF Head(pieces).facet_map # None
          THEN <<Head(pieces).dat, Head(pieces).facet_map>>
          ELSE <<Head(pieces).dat>>) \o FacetSplitArgs(Tail(pieces))

RECURSIVE FacetLoop(_)
FacetLoop(facet_op_coeffs) ==
    IF facet_op_coeffs = <<>> THEN <<>>
    ELSE FacetSplitArgs(Head(facet_op_coeffs).split) \o FacetLoop(Tail(facet_op_coeffs))

facet_op_argsLocalFacetDataFirst(facet_op_coeffs) ==
    <<local_facet_dat>> \o FacetLoop(facet_op_coeffs)
facet_op_args(facet_op_coeffs) ==
    Append(FacetLoop(facet_op_coeffs), local_facet_dat)

\* what an adapter collects for the callback of a kernel: the list and the state slot
Collected(args, slot) == [args |-> args, slot |-> slot]
CollectArgs(kin) ==
    LET coeffs == <<coordinates>> \o kin.coeffs
    IN  CASE kin.kernel = "cell_kernel" -> Returned(Collected(op_args(coeffs), NoSlot))
          [] kin.kernel = "int_facet_kernel" ->
                Returned(Collected(facet_op_args(coeffs), NoSlot))
          [] kin.kernel = "Ffunptr" ->
                IF \A k \in 1..Len(coeffs) : ~coeffs[k].state
                THEN Raised("AssertionError")
                ELSE LET b == BuildArgs(coeffs, <<>>, NoSlot)
                     IN  Returned(Collected(b.args, b.slot))

\* what a kernel received, and the state the solver had handed to the callback
Passed(args, vec, dofsWithAll) ==
    [args |-> args, vec |-> vec, dofsWithAll |-> dofsWithAll]

ArgsInit ==
    /\ kernel_in \in KernelInputs
    /\ jit_args = NoResult
    /\ call_args = NoResult
    /\ passed = NoResult

\* matrix_funptr(J, None), residual_funptr(F, state)
Compile ==
    /\ jit_args.st = "none"
    /\ jit_args' = Returned(IF kernel_in.kernel = "Ffunptr"
                            THEN residual_funptrArgs(kernel_in.coeffs, kernel_in.state)
                            ELSE matrix_funptrArgs(kernel_in.coeffs, kernel_in.state,
                                                   integral_type(kernel_in.kernel)))
    /\ UNCHANGED <<kernel_in, call_args, passed>>
    /\ UNCHANGED argRest

\* the loops of initialize that fill op_args, facet_op_args and Fop_args
Collect ==
    /\ jit_args.st = "ok"
    /\ call_args.st = "none"
    /\ call_args' = CollectArgs(kernel_in)
    /\ UNCHANGED <<kernel_in, jit_args, passed>>
    /\ UNCHANGED argRest

\* one invocation of op, facet_op or Fop, up to the call of the kernel
Invoke ==
    /\ call_args.st = "ok"
    /\ passed.st = "none"
    /\ \E vec \in VecPtrs, dofsWithAll \in DofPtrs \cup {None} :
          IF kernel_in.kernel = "Ffunptr"
          THEN IF dofsWithAll = None
               THEN passed' = Raised("AttributeError")
               ELSE passed' = Returned(Passed(
                        SetDofs(SetVec(call_args.val.args, call_args.val.slot, vec),
                                call_args.val.slot, dofsWithAll),
                        vec, dofsWithAll))
          ELSE passed' = Returned(Passed(call_args.val.args, vec, dofsWithAll))
    /\ UNCHANGED <<kernel_in, jit_args, call_args>>
    /\ UNCHANGED argRest

NextArgs == Compile \/ Collect \/ Invoke

InitArgs == ArgsInit /\ BCIdle /\ PSIdle /\ KernIdle /\ CoefIdle /\ SnesIdle /\ AdIdle

SpecArgs == InitArgs /\ [][NextArgs]_vars

(***************************************************************************)
(* Claims on the output objects of the PatchSNES callbacks                 *)
(***************************************************************************)
\* the last invocation of a callback so far, 0 when there was none
LastCall(fn) ==
    LET ks == {k \in 1..Len(calls) : calls[k].fn = fn}
    IN  IF ks = {} THEN 0 ELSE CHOOSE k \in ks : \A j \in ks : j <= k

\* the output object holds the contribution of that one kernel call, assembled
HoldsOnly(m, call) == m = Output(<<call.args>>, TRUE)

\* C16: an invocation of Jop or Fop clears its output before the kernel runs and
\* assembles it after: whenever the kernel of the last invocation of a callback
\* ran, the output object holds the contribution of that invocation alone,
\* assembled, whatever earlier invocations or earlier uses had left in it.
C16_OutputHoldsOnlyThisInvocation ==
    /\ (LastCall("Jop") # 0 /\ calls[LastCall("Jop")].st = "ok")
           => HoldsOnly(mat, calls[LastCall("Jop")])
    /\ (LastCall("Fop") # 0 /\ calls[LastCall("Fop")].st = "ok")
           => HoldsOnly(out, calls[LastCall("Fop")])

\* a callback has run its kernel twice on an output that held stale entries at
\* first, and the output holds the contribution of the second run alone
C16_Witness ==
    /\ Len(calls) = 2
    /\ calls[1].st = "ok" /\ calls[2].st = "ok"
    /\ calls[1].fn = calls[2].fn
    /\ LET m == IF calls[2].fn = "Jop" THEN mat ELSE out
           o == IF calls[2].fn = "Jop" THEN out ELSE mat
       IN  /\ HoldsOnly(m, calls[2])
           /\ o = Output(StaleEntries, TRUE)

(***************************************************************************)
(* Claims on the argument lists                                            *)
(***************************************************************************)
\* the addresses one compiled argument stands for at call time: the state's are
\* those of the invocation, any other argument's are its data and its map, if any
SlotsOf(arg, vec, dofsWithAll) ==
    IF arg.dat = statedat THEN <<vec, dofsWithAll>>
    ELSE IF arg.map # None THEN <<arg.dat, arg.map>>
    ELSE <<arg.dat>>

\* the addresses the compiled arguments after the output argument stand for
RECURSIVE ExpectedSlots(_, _, _)
ExpectedSlots(args, vec, dofsWithAll) ==
    IF args = <<>> THEN <<>>
    ELSE SlotsOf(Head(args), vec, dofsWithAll)
            \o ExpectedSlots(Tail(args), vec, dofsWithAll)

\* where the slots of the compiled state argument begin, NoSlot without one
RECURSIVE ExpectedStateSlot(_, _)
ExpectedStateSlot(args, before) ==
    IF args = <<>> THEN NoSlot
    ELSE IF Head(args).dat = statedat THEN before
    ELSE ExpectedStateSlot(Tail(args), before + Len(SlotsOf(Head(args), None, None)))

\* C17: for every kernel the buffer addresses collected and passed at call time
\* correspond position by position to the arguments compiled for: coordinates
\* first, the coefficients in coefficient_map order and split alike, the state as
\* one compiled argument and two consecutive slots at the matching position,
\* and for an interior-facet kernel the local facet data last.
C17_CallArgumentsMatchCompiledArguments ==
    LET coefficient_args == Tail(jit_args.val)
    IN  /\ jit_args.st = "ok" =>
              /\ \A k \in 1..Len(jit_args.val) : jit_args.val[k].position = k - 1
              /\ jit_args.val[2].dat = coordinates.split[1].dat
              /\ Cardinality({k \in 1..Len(jit_args.val) :
                                 jit_args.val[k].dat = statedat})
                    = IF \E k \in 1..Len(kernel_in.coeffs) :
                            kernel_in.coeffs[k].name = kernel_in.state
                      THEN 1 ELSE 0
              /\ kernel_in.kernel = "int_facet_kernel" =>
                    jit_args.val[Len(jit_args.val)].dat = local_facet_dat
        /\ call_args.st = "ok" =>
              /\ call_args.val.args = ExpectedSlots(coefficient_args, None, None)
              /\ call_args.val.slot = ExpectedStateSlot(coefficient_args, 0)
        /\ passed.st = "ok" =>
              passed.val.args = ExpectedSlots(coefficient_args, passed.val.vec,
                                              passed.val.dofsWithAll)

\* the residual kernel was called with the state between a coefficient without a
\* map and a coefficient of two pieces
C17_Witness ==
    /\ passed.st = "ok"
    /\ kernel_in.kernel = "Ffunptr"
    /\ kernel_in.coeffs = <<r, u, f>>
    /\ call_args.val.slot = 3
    /\ passed.val.args = <<11, 12, 41, passed.val.vec, passed.val.dofsWithAll,
                            21, 22, 23, 24>>

====
